---- MODULE Spec2Model ----
(***************************************************************************)
(* Model of the date-classification engine of the moon calendar:           *)
(* src/src/lib/JapaneseCalendar.js (getEto, getLuckyDays) together with    *)
(* the places that call it (src/repro_eto.js, src/js/app.js), the          *)
(* moon-phase provider (getMoonPhase, src/unnamed/part_002) and the month  *)
(* navigation of the page (src/js/app.js).  There are three                *)
(* specifications: Spec for the classification of dates, MoonSpec for the  *)
(* moon-phase provider and PageSpec for the page.                          *)
(*                                                                         *)
(* A JavaScript Date is an instant (milliseconds since the epoch, UTC)     *)
(* that the host reads in its local time zone.  The host's time zone is    *)
(* part of the environment, so it is a variable of the model, chosen in    *)
(* Init.  An instant is kept in mixed radix, [day, ms] with                *)
(* 0 <= ms < msPerDay, standing for day * msPerDay + ms: the value of      *)
(* getTime() for a date of this century does not fit the 32-bit integers   *)
(* of the model checker.                                                   *)
(*                                                                         *)
(* The glyphs of the stems and branches and the labels of the tags are     *)
(* written in their romanised readings, e.g. "kinoe" for the first stem    *)
(* and "ne" for the first branch: a TLA+ string holds ASCII only.          *)
(***************************************************************************)
EXTENDS Integers, Sequences, FiniteSets, TLC

VARIABLES tz,        \* the host's time zone (environment of the Date object)
          tables,    \* the module-level arrays JIKKAN and JUNISHI
          date,      \* the Date passed to getEto / getLuckyDays
          eto,       \* what getEto(date) returned
          lucks,     \* what getLuckyDays(date) returned
          prevDate,  \* the Date of the call before this one
          prevEto,   \* what getEto(prevDate) returned
          prevLucks, \* what getLuckyDays(prevDate) returned
          step,      \* how `date' was made: "new", "called", "midnight",
                     \* "nextDay", "plus60", "plus12", "laterYear"
          astronomy, \* window.Astronomy is there: the library's script loaded
          moon,      \* what getMoonPhase(date) returned
          currentDate, \* app.js:91: the Date of the month on display
          label,     \* the year and the month in #current-month-label
          grid,      \* the children of #calendar-grid, in order
          clicks,    \* the clicks on the two month buttons so far
          shown      \* the year and month displayed after the load and
                     \* after each click

\* the state of the classification of dates
calcVars == <<tables, date, eto, lucks, prevDate, prevEto, prevLucks, step>>

\* the state of the moon-phase provider
moonVars == <<astronomy, moon>>

\* the state of the page
pageVars == <<currentDate, label, grid, clicks, shown>>

vars == <<tz, calcVars, moonVars, pageVars>>

-----------------------------------------------------------------------------
(* Bounds of the model *)

\* the inputs lie in the years AnchorYear - YearsBefore .. AnchorYear + YearsAfter
YearsBefore == 1
YearsAfter == 2

\* the same month and day is looked up again at most MaxYearGap years later
MaxYearGap == 23

\* the month buttons are clicked at most MaxClicks times
MaxClicks == 2

-----------------------------------------------------------------------------
(* The host's Date object *)

msPerHour == 60 * 60 * 1000

\* JapaneseCalendar.js:68
msPerDay == 24 * 60 * 60 * 1000

\* day * msPerDay + ms, brought back to 0 <= ms < msPerDay
Norm(day, ms) == [day |-> day + (ms \div msPerDay), ms |-> ms % msPerDay]

\* t + ms milliseconds
AddMs(t, ms) == Norm(t.day, t.ms + ms)

\* t1 < t2
Before(t1, t2) == t1.day < t2.day \/ (t1.day = t2.day /\ t1.ms < t2.ms)

\* days from 1970-01-01 to day doy (0-based) of the year yy that begins on 1 March
DaysFromMarchYear(yy, doy) ==
    (yy \div 400) * 146097 + (yy % 400) * 365 + ((yy % 400) \div 4)
        - ((yy % 400) \div 100) + doy - 719468

\* days from 1970-01-01 to the civil date (y, m, d), m in 1..12; d may lie
\* outside the month, as in new Date(y, m, d + 60)
DaysFromCivil(y, m, d) ==
    DaysFromMarchYear(IF m <= 2 THEN y - 1 ELSE y,
                      ((153 * (IF m > 2 THEN m - 3 ELSE m + 9) + 2) \div 5) + d - 1)

\* the civil date of day d of month m of the year that began on 1 March of y0
CivilRecord(y0, m, d) ==
    [year |-> y0 + (IF m <= 2 THEN 1 ELSE 0), month |-> m, day |-> d]

\* ... of day doy (0-based) of that year, which lies in its month mp (0 = March)
CivilFromMp(y0, doy, mp) ==
    CivilRecord(y0, IF mp < 10 THEN mp + 3 ELSE mp - 9, doy - ((153 * mp + 2) \div 5) + 1)

CivilFromDoy(y0, doy) == CivilFromMp(y0, doy, (5 * doy + 2) \div 153)

\* ... of day doe of the 400-year era, which lies in its year yoe
CivilFromYoe(era, doe, yoe) ==
    CivilFromDoy(yoe + era * 400, doe - (365 * yoe + (yoe \div 4) - (yoe \div 100)))

CivilFromEra(era, doe) ==
    CivilFromYoe(era, doe,
                 (doe - (doe \div 1460) + (doe \div 36524) - (doe \div 146096)) \div 365)

\* the civil date of the day that lies z days after 1970-01-01
CivilFromDays(z) == CivilFromEra((z + 719468) \div 146097, (z + 719468) % 146097)

\* 0 (Sunday) .. 6 (Saturday); 1970-01-01 was a Thursday
WeekDay(z) == (z + 4) % 7

\* the first Sunday on or after day z
SundayOnOrAfter(z) == z + ((7 - WeekDay(z)) % 7)

\* the day number of the n-th Sunday of month m of year y
NthSunday(y, m, n) == SundayOnOrAfter(DaysFromCivil(y, m, 1)) + 7 * (n - 1)

\* The time zones a host may run in: one without daylight saving (the
\* calendar's home zone), one of the northern and one of the southern
\* hemisphere with it.  std is the standard offset east of UTC.
TimeZones ==
    { [name |-> "Asia/Tokyo",       std |->  9 * msPerHour, dst |-> "none"],
      [name |-> "America/New_York", std |-> -5 * msPerHour, dst |-> "north"],
      [name |-> "Australia/Sydney", std |-> 10 * msPerHour, dst |-> "south"] }

\* the instant at which daylight saving begins in year y: 02:00 standard time
\* on the second Sunday of March (north), the first Sunday of October (south)
DstStart(zone, y) ==
    Norm(IF zone.dst = "north" THEN NthSunday(y, 3, 2) ELSE NthSunday(y, 10, 1),
         2 * msPerHour - zone.std)

\* the instant at which daylight saving ends in year y: 02:00 daylight time
\* on the first Sunday of November (north), 03:00 daylight time on the
\* first Sunday of April (south)
DstEnd(zone, y) ==
    IF zone.dst = "north"
    THEN Norm(NthSunday(y, 11, 1), 2 * msPerHour - (zone.std + msPerHour))
    ELSE Norm(NthSunday(y, 4, 1), 3 * msPerHour - (zone.std + msPerHour))

\* the clock of a zone with daylight saving is on daylight-saving time at the
\* instant t of year y
OnDst(zone, t, y) ==
    IF zone.dst = "north"
    THEN ~Before(t, DstStart(zone, y)) /\ Before(t, DstEnd(zone, y))
    ELSE Before(t, DstEnd(zone, y)) \/ ~Before(t, DstStart(zone, y))

\* the zone's offset from UTC, in ms, at the instant t
LocalOffset(zone, t) ==
    IF zone.dst # "none" /\ OnDst(zone, t, CivilFromDays(t.day).year)
    THEN zone.std + msPerHour
    ELSE zone.std

\* the instant t as the host's local clock shows it
LocalTime(zone, t) == AddMs(t, LocalOffset(zone, t))

\* date.getFullYear(), date.getMonth() + 1, date.getDate()
LocalCivil(zone, t) == CivilFromDays(LocalTime(zone, t).day)

\* local midnight of the civil day with number days: midnight on standard
\* time if the zone is on standard time then, else midnight on daylight time
LocalMidnight(zone, days) ==
    IF LocalOffset(zone, Norm(days, 0 - zone.std)) = zone.std
    THEN Norm(days, 0 - zone.std)
    ELSE Norm(days, 0 - (zone.std + msPerHour))

\* new Date(y, m0, d): local midnight of day d of month m0 (0-based) of year y
NewDate(zone, y, m0, d) ==
    LocalMidnight(zone, DaysFromCivil(y + (m0 \div 12), (m0 % 12) + 1, d))

\* the instant at which the local clock shows ms milliseconds after midnight
\* of the civil day with number days; a time that the clock shows twice or
\* never is read with the offset from before the change of the clock
LocalToUtc(zone, days, ms) ==
    IF LocalOffset(zone, Norm(days, ms - (zone.std + msPerHour))) # zone.std
    THEN Norm(days, ms - (zone.std + msPerHour))
    ELSE Norm(days, ms - zone.std)

\* the Date with the local year, day of the month and time of day of the
\* local time lt, whose civil date is c, and the month m0 (0-based; it may
\* lie outside 0..11, and the day outside the month)
SetMonthOf(zone, lt, c, m0) ==
    LocalToUtc(zone, DaysFromCivil(c.year + (m0 \div 12), (m0 % 12) + 1, c.day), lt.ms)

\* date.setMonth(date.getMonth() + delta)
SetMonth(zone, t, delta) ==
    SetMonthOf(zone, LocalTime(zone, t), LocalCivil(zone, t),
               LocalCivil(zone, t).month - 1 + delta)

\* date.getTime() - anchor.getTime() divided by msPerDay and rounded down
FloorDays(t, a) == (t.day - a.day) + (IF t.ms - a.ms < 0 THEN -1 ELSE 0)

-----------------------------------------------------------------------------
(* src/src/lib/JapaneseCalendar.js *)

\* The arrays of lines 7 and 9 as the module is loaded, the glyphs by their
\* readings: the Ten Celestial Stems and the Twelve Earthly Branches.  The
\* arrays are objects that live as long as the page; the functions read them
\* at each call.
GlyphTables ==
    [JIKKAN  |-> <<"kinoe", "kinoto", "hinoe", "hinoto", "tsuchinoe",
                   "tsuchinoto", "kanoe", "kanoto", "mizunoe", "mizunoto">>,
     JUNISHI |-> <<"ne", "ushi", "tora", "u", "tatsu", "mi",
                   "uma", "hitsuji", "saru", "tori", "inu", "i">>]

\* line 7
JIKKAN == tables.JIKKAN

\* line 9
JUNISHI == tables.JUNISHI

\* lines 14-27: the approximate onset days of the twelve solar terms
SOLAR_TERMS_BASE ==
       ("Risshun"   :> [month |-> 2,  day |-> 4])
    @@ ("Keichitsu" :> [month |-> 3,  day |-> 6])
    @@ ("Seimei"    :> [month |-> 4,  day |-> 5])
    @@ ("Rikka"     :> [month |-> 5,  day |-> 5])
    @@ ("Boushu"    :> [month |-> 6,  day |-> 6])
    @@ ("Shousho"   :> [month |-> 7,  day |-> 7])
    @@ ("Risshu"    :> [month |-> 8,  day |-> 7])
    @@ ("Hakuro"    :> [month |-> 9,  day |-> 8])
    @@ ("Kanro"     :> [month |-> 10, day |-> 8])
    @@ ("Rittou"    :> [month |-> 11, day |-> 7])
    @@ ("Taisetsu"  :> [month |-> 12, day |-> 7])
    @@ ("Shoukan"   :> [month |-> 1,  day |-> 5])

\* arr[i] of a JavaScript array (0-based): undefined outside the array
JsIndex(arr, i) == IF i \in 0..(Len(arr) - 1) THEN arr[i + 1] ELSE "undefined"

\* a % b of JavaScript for b > 0: the result has the sign of a
JsRem(a, b) == IF a >= 0 THEN a % b ELSE 0 - ((0 - a) % b)

\* the calibration anchor: new Date(2024, 0, 1), which line 91 gives cycle index 0
AnchorYear == 2024
\* the cycle index that the earlier calibration gave the anchor (lines 59, 85)
AnchorCycle50 == 50

AnchorCycle == 0

anchor(zone) == NewDate(zone, AnchorYear, 0, 1)

\* line 69
diffDays(zone, dt) == FloorDays(dt, anchor(zone))

\* line 91 without the correction of line 92
currentCycleTruncated(diff) == JsRem(AnchorCycle + diff, 60)

\* lines 91-92
currentCycle(diff) ==
    LET c == JsRem(AnchorCycle + diff, 60)
    IN  IF c < 0 THEN c + 60 ELSE c

\* line 94
stemIndexOf(cycle) == JsRem(cycle, 10)

\* the branch by the formula of line 60, one ahead of the stem
branchIndexShifted(cycle) == JsRem(cycle + 1, 12)

\* line 95
branchIndexOf(cycle) == JsRem(cycle, 12)

\* lines 97-103
etoOfIndices(stemIndex, branchIndex) ==
    [stemIndex   |-> stemIndex,
     branchIndex |-> branchIndex,
     stem        |-> JsIndex(JIKKAN, stemIndex),
     branch      |-> JsIndex(JUNISHI, branchIndex),
     etoString   |-> JsIndex(JIKKAN, stemIndex) \o JsIndex(JUNISHI, branchIndex)]

\* lines 94-103
etoOfCycle(cycle) == etoOfIndices(stemIndexOf(cycle), branchIndexOf(cycle))

getEto(zone, dt) == etoOfCycle(currentCycle(diffDays(zone, dt)))

\* spring that begins the day after its onset
isSpringExclusive(month, day) ==
    (month = 2 /\ day > 4) \/ month = 3 \/ month = 4 \/ (month = 5 /\ day < 5)

\* lines 125-133
isSpring(month, day) == (month = 2 /\ day >= 4) \/ month = 3 \/ month = 4 \/ (month = 5 /\ day < 5)
isSummer(month, day) == (month = 5 /\ day >= 5) \/ month = 6 \/ month = 7 \/ (month = 8 /\ day < 7)
isAutumn(month, day) == (month = 8 /\ day >= 7) \/ month = 9 \/ month = 10 \/ (month = 11 /\ day < 7)
isWinter(month, day) == (month = 11 /\ day >= 7) \/ month = 12 \/ month = 1 \/ (month = 2 /\ day < 4)

seasonOf(month, day) ==
    IF isSpring(month, day) THEN "spring"
    ELSE IF isSummer(month, day) THEN "summer"
    ELSE IF isAutumn(month, day) THEN "autumn"
    ELSE IF isWinter(month, day) THEN "winter"
    ELSE ""

\* lines 162-165
thresholds == <<6, 4, 6, 5, 6, 6, 7, 8, 8, 8, 7, 7>>

\* the solar month without the step from January back to December
getSolarMonthNoWrap(m, d) ==
    LET th == IF m \in DOMAIN thresholds /\ thresholds[m] # 0 THEN thresholds[m] ELSE 1
    IN  IF d >= th THEN m ELSE m - 1

\* lines 160-169
getSolarMonth(m, d) ==
    LET th == IF m \in DOMAIN thresholds /\ thresholds[m] # 0 THEN thresholds[m] ELSE 1
    IN  IF d >= th THEN m
        ELSE IF m = 1 THEN 12 ELSE m - 1

\* lines 189-202
manbaiRules ==
    << <<"ushi", "uma">>,  <<"tora", "tori">>, <<"ne", "u">>,
       <<"u", "tatsu">>,   <<"mi", "uma">>,    <<"uma", "tori">>,
       <<"ne", "hitsuji">>, <<"u", "saru">>,   <<"tori", "uma">>,
       <<"tori", "inu">>,  <<"i", "ne">>,      <<"u", "ne">> >>

\* arr.includes(x)
Includes(arr, x) == \E i \in DOMAIN arr : arr[i] = x

\* the tag objects pushed at lines 135-138, 205, 209, 212, 215
TagTensha == [type |-> "tensha", label |-> "tensha-bi"]
TagManbai == [type |-> "ichiryumanbai", label |-> "ichiryumanbai-bi"]
TagTora == [type |-> "tora", label |-> "tora-no-hi"]
TagMi == [type |-> "mi", label |-> "mi-no-hi"]
\* the super-mi tag with the label of the mi tag left in it
TagSuperMiMislabelled == [type |-> "super-mi", label |-> "mi-no-hi"]

TagSuperMi == [type |-> "super-mi", label |-> "tsuchinoto-mi-no-hi"]

\* lucks.push(tag) if cond
PushIf(cond, tag) == IF cond THEN <<tag>> ELSE <<>>

\* the four rules with the third left as a copy of the first
tenshaPushesCopied(season, e) ==
       PushIf(season = "spring" /\ e.stem = "tsuchinoe" /\ e.branch = "tora", TagTensha)
    \o PushIf(season = "summer" /\ e.stem = "kinoe" /\ e.branch = "uma", TagTensha)
    \o PushIf(season = "spring" /\ e.stem = "tsuchinoe" /\ e.branch = "tora", TagTensha)
    \o PushIf(season = "winter" /\ e.stem = "kinoe" /\ e.branch = "ne", TagTensha)

\* the four rules with the season test of the winter rule left out
tenshaPushesNoSeason(season, e) ==
       PushIf(season = "spring" /\ e.stem = "tsuchinoe" /\ e.branch = "tora", TagTensha)
    \o PushIf(season = "summer" /\ e.stem = "kinoe" /\ e.branch = "uma", TagTensha)
    \o PushIf(season = "autumn" /\ e.stem = "tsuchinoe" /\ e.branch = "saru", TagTensha)
    \o PushIf(e.stem = "kinoe" /\ e.branch = "ne", TagTensha)

\* lines 135-138: the four tensha rules
tenshaPushes(season, e) ==
       PushIf(season = "spring" /\ e.stem = "tsuchinoe" /\ e.branch = "tora", TagTensha)
    \o PushIf(season = "summer" /\ e.stem = "kinoe" /\ e.branch = "uma", TagTensha)
    \o PushIf(season = "autumn" /\ e.stem = "tsuchinoe" /\ e.branch = "saru", TagTensha)
    \o PushIf(season = "winter" /\ e.stem = "kinoe" /\ e.branch = "ne", TagTensha)

\* the rule looked up by the calendar month instead of the solar month
manbaiPushesByMonth(month, day, e) ==
    PushIf(month \in DOMAIN manbaiRules /\ Includes(manbaiRules[month], e.branch),
           TagManbai)

\* lines 171-206
manbaiPushes(month, day, e) ==
    LET solarMonth == getSolarMonth(month, day)
        b          == e.branch
    IN  PushIf(solarMonth \in DOMAIN manbaiRules /\ Includes(manbaiRules[solarMonth], b),
               TagManbai)

\* the tora rule on the branch of the mi rule
toraPushesOnSnake(e) == PushIf(e.branch = "mi", TagTora)

\* line 209
toraPushes(e) == PushIf(e.branch = "tora", TagTora)

\* the mi rule on the branch after the snake
miPushesWrongBranch(e) == PushIf(e.branch = "uma", TagMi)

\* line 212
miPushes(e) == PushIf(e.branch = "mi", TagMi)

\* line 215
superMiPushes(e) == PushIf(e.stem = "tsuchinoto" /\ e.branch = "mi", TagSuperMi)

\* the pushes with the branch rules ahead of the ichiryumanbai rule and
\* super-mi ahead of mi
luckyTagsReordered(month, day, e) ==
       tenshaPushes(seasonOf(month, day), e)
    \o toraPushes(e)
    \o superMiPushes(e)
    \o miPushes(e)
    \o manbaiPushes(month, day, e)

\* lines 109-218: the pushes in the order of the statements
luckyTags(month, day, e) ==
       tenshaPushes(seasonOf(month, day), e)
    \o manbaiPushes(month, day, e)
    \o toraPushes(e)
    \o miPushes(e)
    \o superMiPushes(e)

\* the rules read with the onset days of a leap year one day earlier than
\* those of the other years
luckyDaysOnByYear(civil, e) ==
    luckyTags(civil.month, IF civil.year % 4 = 0 THEN civil.day + 1 ELSE civil.day, e)

\* lines 111-217, with date.getMonth() + 1 and date.getDate() in civil
luckyDaysOn(civil, e) == luckyTags(civil.month, civil.day, e)

getLuckyDays(zone, dt) == luckyDaysOn(LocalCivil(zone, dt), getEto(zone, dt))

-----------------------------------------------------------------------------
(* src/js/app.js *)

\* lines 333-339: the texts of the dictionary, each given by its gist
luckyDescriptions ==
       ("tensha" :> "heaven forgives all sins; the best day to begin something")
    @@ ("ichiryumanbai" :> "one grain bears ten thousand; good for sowing, opening, investing")
    @@ ("tora" :> "the tiger goes a thousand miles and returns; good for travel and money")
    @@ ("mi" :> "day of the snake, messenger of Benzaiten; luck in money and the arts")
    @@ ("super-mi" :> "the strongest day for money, once in 60 days; visit Benzaiten")

\* line 340: the text for a type without an entry
defaultDescription == "a good day"

\* lines 332-341
getLuckyDescription(type) ==
    IF type \in DOMAIN luckyDescriptions /\ luckyDescriptions[type] # ""
    THEN luckyDescriptions[type]
    ELSE defaultDescription

-----------------------------------------------------------------------------
(* lib/MoonData.js, as src/unnamed/part_002 holds it.  An angle is kept in   *)
(* tenths of a degree and the lit fraction of the disc in thousandths.  The  *)
(* names of the phases are written in their readings.                        *)

\* what Astronomy.MoonPhase(date) may return, [0, 360) degrees: the values
\* next to the bounds of the four names
Elongations ==
    { 0, 49, 50, 51, 849, 850, 851, 949, 950, 1749, 1750, 1849, 1850,
      2649, 2650, 2749, 2750, 3549, 3550, 3551, 3599 }

\* what Astronomy.Illumination(Body.Moon, date).phase_fraction may return
Fractions == { 0, 4, 5, 500, 994, 995, 1000 }

\* n.toFixed(0) of a number of n1000 thousandths times 100
PercentToFixed0(n1000) == ToString((n1000 + 5) \div 10)

\* n.toFixed(1) of a number of n10 tenths
TenthsToFixed1(n10) == ToString(n10 \div 10) \o "." \o ToString(n10 % 10)

\* line 376: (solarElongation / 360) * 29.53, rounded to tenths of a day
ageTenths(deg) == (deg * 2953 + 18000) \div 36000

\* lines 379-388
phaseNameOf(deg) ==
    IF deg < 50 \/ deg > 3550 THEN "shingetsu"
    ELSE IF deg >= 850 /\ deg < 950 THEN "jougen-no-tsuki"
    ELSE IF deg >= 1750 /\ deg < 1850 THEN "mangetsu"
    ELSE IF deg >= 2650 /\ deg < 2750 THEN "kagen-no-tsuki"
    ELSE ""

\* line 359: the record returned when window.Astronomy is not there
moonUnknown == [phase |-> "unknown", age |-> 0, illumination |-> 0]

\* lines 358-396, with solarElongation and phase_fraction as the library
\* returned them
getMoonPhase(loaded, solarElongation, phase_fraction) ==
    IF ~loaded
    THEN moonUnknown
    ELSE [phaseName    |-> phaseNameOf(solarElongation),
          age          |-> TenthsToFixed1(ageTenths(solarElongation)),
          illumination |-> PercentToFixed0(phase_fraction),
          degrees      |-> solarElongation]

-----------------------------------------------------------------------------
(* The calls *)

\* elapsed time since local midnight at which `now' may fall
Elapsed == { 0, msPerHour - 1, 12 * msPerHour, 23 * msPerHour, msPerDay - 1 }

FirstDay == DaysFromCivil(AnchorYear - YearsBefore, 1, 1)
LastDay == DaysFromCivil(AnchorYear + YearsAfter, 12, 31)

NoDate == [day |-> 0, ms |-> -1]
NoEto == [stemIndex |-> -1, branchIndex |-> -1, stem |-> "", branch |-> "", etoString |-> ""]

\* getMoonPhase was not called yet
NoMoon == [phase |-> "none"]

\* the text of #current-month-label before updateHeader has run
NoLabel == [year |-> 0, month |-> 0]

\* a header cell, a placeholder cell, the cell of day d of the grid
HeaderCell(name) == [kind |-> "header", text |-> name]
EmptyCell == [kind |-> "empty"]

\* index.html, app.js:89: the seven header cells that the grid holds from the
\* start, Sunday first
WEEKDAYS ==
    << HeaderCell("nichi"), HeaderCell("getsu"), HeaderCell("ka"), HeaderCell("sui"),
       HeaderCell("moku"), HeaderCell("kin"), HeaderCell("do") >>

\* A Date is made: new Date(y, m - 1, day) (repro_eto.js:20, e = 0) or
\* new Date() (app.js:107, any instant of a civil day); nothing is computed yet
Init ==
    /\ tz \in TimeZones
    /\ tables = GlyphTables
    /\ \E n \in FirstDay..LastDay, e \in Elapsed :
          /\ date = AddMs(LocalMidnight(tz, n), e)
          /\ LocalCivil(tz, date) = CivilFromDays(n)
    /\ eto = NoEto
    /\ lucks = <<>>
    /\ prevDate = NoDate
    /\ prevEto = NoEto
    /\ prevLucks = <<>>
    /\ step = "new"
    /\ astronomy = TRUE
    /\ moon = NoMoon
    /\ currentDate = NoDate
    /\ label = NoLabel
    /\ grid = WEEKDAYS
    /\ clicks = <<>>
    /\ shown = <<>>

\* new Date(year, month, d + delta) where (year, month, d) is the civil date c
NewDateOn(zone, c, delta) == NewDate(zone, c.year, c.month - 1, c.day + delta)

\* new Date(year, month, d) where (year, month) are the local year and month
\* of dt and d is its day of the month plus delta
DateAfter(zone, dt, delta) == NewDateOn(zone, LocalCivil(zone, dt), delta)

\* the two calls with the Date brought to local midnight in place, as by
\* date.setHours(0, 0, 0, 0), before the day offset is taken
ClassifyInPlace ==
    /\ step = "new"
    /\ date' = DateAfter(tz, date, 0)
    /\ eto' = getEto(tz, date')
    /\ lucks' = getLuckyDays(tz, date')
    /\ step' = "called"
    /\ UNCHANGED <<tz, tables, prevDate, prevEto, prevLucks, moonVars, pageVars>>

\* repro_eto.js:22-23, app.js:110-111: getEto and getLuckyDays of the Date
Classify ==
    /\ step = "new"
    /\ eto' = getEto(tz, date)
    /\ lucks' = getLuckyDays(tz, date)
    /\ step' = "called"
    /\ UNCHANGED <<tz, tables, date, prevDate, prevEto, prevLucks, moonVars, pageVars>>

\* app.js:213-225: the calendar cell of the day, after the panel of app.js:107-111
MidnightCell ==
    /\ step = "called"
    /\ date' = DateAfter(tz, date, 0)
    /\ eto' = getEto(tz, date')
    /\ lucks' = getLuckyDays(tz, date')
    /\ prevDate' = date
    /\ prevEto' = eto
    /\ prevLucks' = lucks
    /\ step' = "midnight"
    /\ UNCHANGED <<tz, tables, moonVars, pageVars>>

\* app.js:212-225: the cell of the following day
NextDay ==
    /\ step = "called"
    /\ date' = DateAfter(tz, date, 1)
    /\ eto' = getEto(tz, date')
    /\ lucks' = getLuckyDays(tz, date')
    /\ prevDate' = date
    /\ prevEto' = eto
    /\ prevLucks' = lucks
    /\ step' = "nextDay"
    /\ UNCHANGED <<tz, tables, moonVars, pageVars>>

\* the same for the cell of the day 60 days on
Plus60 ==
    /\ step = "called"
    /\ date' = DateAfter(tz, date, 60)
    /\ eto' = getEto(tz, date')
    /\ lucks' = getLuckyDays(tz, date')
    /\ prevDate' = date
    /\ prevEto' = eto
    /\ prevLucks' = lucks
    /\ step' = "plus60"
    /\ UNCHANGED <<tz, tables, moonVars, pageVars>>

\* the same for the cell of the day 12 days on
Plus12 ==
    /\ step = "called"
    /\ date' = DateAfter(tz, date, 12)
    /\ eto' = getEto(tz, date')
    /\ lucks' = getLuckyDays(tz, date')
    /\ prevDate' = date
    /\ prevEto' = eto
    /\ prevLucks' = lucks
    /\ step' = "plus12"
    /\ UNCHANGED <<tz, tables, moonVars, pageVars>>

\* the same for the cell of the same month and day k years on, in the grid of
\* that month; the Date classified before is one made by new Date(y, m, d)
LaterYear ==
    /\ step = "called"
    /\ LocalTime(tz, date).ms = 0
    /\ \E k \in 1..MaxYearGap :
          date' = NewDate(tz, LocalCivil(tz, date).year + k,
                          LocalCivil(tz, date).month - 1, LocalCivil(tz, date).day)
    /\ eto' = getEto(tz, date')
    /\ lucks' = getLuckyDays(tz, date')
    /\ prevDate' = date
    /\ prevEto' = eto
    /\ prevLucks' = lucks
    /\ step' = "laterYear"
    /\ UNCHANGED <<tz, tables, moonVars, pageVars>>

\* the cells of the month of the anchor, for which the moon is looked up
MoonDays == 1..31

\* the page is loaded, with the script of the astronomy library or without
\* it; a cell of the calendar is about to be drawn
MoonInit ==
    /\ tz \in TimeZones
    /\ tables = GlyphTables
    /\ \E d \in MoonDays : date = NewDate(tz, AnchorYear, 0, d)
    /\ eto = NoEto
    /\ lucks = <<>>
    /\ prevDate = NoDate
    /\ prevEto = NoEto
    /\ prevLucks = <<>>
    /\ step = "new"
    /\ astronomy \in BOOLEAN
    /\ moon = NoMoon
    /\ currentDate = NoDate
    /\ label = NoLabel
    /\ grid = WEEKDAYS
    /\ clicks = <<>>
    /\ shown = <<>>

\* app.js:224: getMoonPhase(currentLoopDate); the library answers with some
\* angle and some lit fraction
GetMoonPhase ==
    /\ moon = NoMoon
    /\ \E deg \in Elongations, f \in Fractions :
          moon' = getMoonPhase(astronomy, deg, f)
    /\ UNCHANGED <<tz, calcVars, astronomy, pageVars>>

\* app.js:212-224: the loop goes on to the cell of the following day
MoonNextCell ==
    /\ moon # NoMoon
    /\ LocalCivil(tz, date).day + 1 \in MoonDays
    /\ date' = DateAfter(tz, date, 1)
    /\ moon' = NoMoon
    /\ UNCHANGED <<tz, tables, eto, lucks, prevDate, prevEto, prevLucks, step,
                   astronomy, pageVars>>

MoonNext == GetMoonPhase \/ MoonNextCell

MoonSpec == MoonInit /\ [][MoonNext]_vars

\* app.js:173-174: the year and the month (1..12) of the header
HeaderOf(zone, dt) ==
    [year |-> LocalCivil(zone, dt).year, month |-> LocalCivil(zone, dt).month]

\* app.js:213-225, 251-257: the cell of day d, whose Date is dt, with the
\* day number, the label of getEto and the labels of getLuckyDays
BadgeCell(d, e, luckyDays) ==
    [kind |-> "day", day |-> d, eto |-> e.etoString,
     badges |-> [i \in DOMAIN luckyDays |-> luckyDays[i].label]]

\* app.js:223, 225: getLuckyDays(currentLoopDate), which takes the month,
\* the day and getEto of the Date (JapaneseCalendar.js:110-112), and
\* getEto(currentLoopDate), which returns the same again
DayCellOf(d, civil, e) == BadgeCell(d, e, luckyDaysOn(civil, e))

\* app.js:213: the cell of day d, whose Date is dt
DayCell(zone, dt, d) == DayCellOf(d, LocalCivil(zone, dt), getEto(zone, dt))

\* the removal of the cells by a loop over the live list of children, an
\* index going up from 7: every second cell stays
clearDaysLive(cells) ==
    SubSeq(cells, 1, IF Len(cells) < 7 THEN Len(cells) ELSE 7)
        \o [k \in 1..((IF Len(cells) < 7 THEN 0 ELSE Len(cells) - 7) \div 2) |-> cells[7 + 2 * k]]

\* app.js:183-191: all children after the first 7 are removed
clearDays(cells) == SubSeq(cells, 1, IF Len(cells) < 7 THEN Len(cells) ELSE 7)

\* app.js:193-257: the cells appended for the month m0 (0-based) of year,
\* that begins on the weekday startDayOfWeek and has daysInMonth days
monthCells(zone, year, m0, startDayOfWeek, daysInMonth) ==
       [i \in 1..startDayOfWeek |-> EmptyCell]
    \o [d \in 1..daysInMonth |-> DayCell(zone, NewDate(zone, year, m0, d), d)]

\* app.js:193-200: firstDay.getDay() and lastDay.getDate()
cellsOfMonth(zone, year, m0) ==
    monthCells(zone, year, m0,
               WeekDay(LocalTime(zone, NewDate(zone, year, m0, 1)).day),
               LocalCivil(zone, NewDate(zone, year, m0 + 1, 0)).day)

\* app.js:177-258: renderCalendar(dt) on a grid that holds cells
renderCalendar(cells, zone, dt) ==
    clearDays(cells) \o cellsOfMonth(zone, LocalCivil(zone, dt).year,
                                     LocalCivil(zone, dt).month - 1)

\* the page is opened on a day of the year of the anchor, a leap year
PageFirstDay == DaysFromCivil(AnchorYear, 1, 1)
PageLastDay == DaysFromCivil(AnchorYear, 12, 31)

\* app.js:91: the script is run, currentDate = new Date(); the grid is as
\* the document has it
PageInit ==
    /\ tz \in TimeZones
    /\ tables = GlyphTables
    /\ date = NoDate
    /\ eto = NoEto
    /\ lucks = <<>>
    /\ prevDate = NoDate
    /\ prevEto = NoEto
    /\ prevLucks = <<>>
    /\ step = "new"
    /\ astronomy = TRUE
    /\ moon = NoMoon
    /\ \E n \in PageFirstDay..PageLastDay, e \in Elapsed :
          /\ currentDate = AddMs(LocalMidnight(tz, n), e)
          /\ LocalCivil(tz, currentDate) = CivilFromDays(n)
    /\ label = NoLabel
    /\ grid = WEEKDAYS
    /\ clicks = <<>>
    /\ shown = <<>>

\* app.js:94-100: DOMContentLoaded
PageLoaded ==
    /\ shown = <<>>
    /\ grid' = renderCalendar(grid, tz, currentDate)
    /\ label' = HeaderOf(tz, currentDate)
    /\ shown' = <<HeaderOf(tz, currentDate)>>
    /\ UNCHANGED <<tz, calcVars, moonVars, currentDate, clicks>>

\* app.js:158-162: a click on #prev-month
ClickPrevMonth ==
    /\ shown # <<>>
    /\ Len(clicks) < MaxClicks
    /\ currentDate' = SetMonth(tz, currentDate, -1)
    /\ grid' = renderCalendar(grid, tz, currentDate')
    /\ label' = HeaderOf(tz, currentDate')
    /\ clicks' = Append(clicks, "prev")
    /\ shown' = Append(shown, label')
    /\ UNCHANGED <<tz, calcVars, moonVars>>

\* app.js:164-168: a click on #next-month
ClickNextMonth ==
    /\ shown # <<>>
    /\ Len(clicks) < MaxClicks
    /\ currentDate' = SetMonth(tz, currentDate, 1)
    /\ grid' = renderCalendar(grid, tz, currentDate')
    /\ label' = HeaderOf(tz, currentDate')
    /\ clicks' = Append(clicks, "next")
    /\ shown' = Append(shown, label')
    /\ UNCHANGED <<tz, calcVars, moonVars>>

PageNext == PageLoaded \/ ClickPrevMonth \/ ClickNextMonth

PageSpec == PageInit /\ [][PageNext]_vars

Next == Classify \/ MidnightCell \/ NextDay \/ Plus60 \/ Plus12 \/ LaterYear

Spec == Init /\ [][Next]_vars

-----------------------------------------------------------------------------
(* What the formulas below speak of *)

\* the Date is a local midnight
IsLocalMidnight(zone, dt) == LocalTime(zone, dt).ms = 0

\* the number of calendar days from the anchor day to the civil day of dt
CalendarDays(zone, dt) == LocalTime(zone, dt).day - DaysFromCivil(AnchorYear, 1, 1)

\* the host's clock is on daylight-saving time at dt
InDst(zone, dt) == LocalOffset(zone, dt) # zone.std

\* the designation of cycle index c
Designation(c, e) ==
    /\ e.stemIndex = c % 10
    /\ e.branchIndex = c % 12
    /\ e.stem = JIKKAN[(c % 10) + 1]
    /\ e.branch = JUNISHI[(c % 12) + 1]

\* the types of the tags of a list, in order
TypesOf(tags) == [i \in DOMAIN tags |-> tags[i].type]

\* the fixed order of the tag types
TagOrder == <<"tensha", "ichiryumanbai", "tora", "mi", "super-mi">>

\* the place of a tag type in TagOrder, 0 for a type that is not in it
Rank(type) == IF \E i \in DOMAIN TagOrder : TagOrder[i] = type
              THEN CHOOSE i \in DOMAIN TagOrder : TagOrder[i] = type
              ELSE 0

\* some tag of the list has the type
HasTag(tags, type) == \E i \in DOMAIN tags : tags[i].type = type

\* the local month and day of the month of the Date of the last call
Civil == LocalCivil(tz, date)

\* (month, day) lies in the span of days from (m1, d1) to (m2, d2), both included
InSpan(month, day, m1, d1, m2, d2) ==
    /\ month * 100 + day >= m1 * 100 + d1
    /\ month * 100 + day <= m2 * 100 + d2

\* the season by the onset days: spring Feb 4 - May 4, summer May 5 - Aug 6,
\* autumn Aug 7 - Nov 6, winter Nov 7 - Feb 3 across the turn of the year
SeasonBySpan(month, day) ==
    CASE InSpan(month, day, 2, 4, 5, 4)   -> "spring"
      [] InSpan(month, day, 5, 5, 8, 6)   -> "summer"
      [] InSpan(month, day, 8, 7, 11, 6)  -> "autumn"
      [] InSpan(month, day, 11, 7, 12, 31) \/ InSpan(month, day, 1, 1, 2, 3) -> "winter"
      [] OTHER -> "none"

\* the four (season, stem, branch) combinations of the tensha rule
TenshaCombos ==
    { <<"spring", "tsuchinoe", "tora">>, <<"summer", "kinoe", "uma">>,
      <<"autumn", "tsuchinoe", "saru">>, <<"winter", "kinoe", "ne">> }

\* how many of the four season tests hold for (month, day)
SeasonCount(month, day) ==
      (IF isSpring(month, day) THEN 1 ELSE 0) + (IF isSummer(month, day) THEN 1 ELSE 0)
    + (IF isAutumn(month, day) THEN 1 ELSE 0) + (IF isWinter(month, day) THEN 1 ELSE 0)

\* the month before month m, December before January
MonthBefore(m) == IF m = 1 THEN 12 ELSE m - 1

\* the glyphs of the twelve branches
BranchGlyphs == {JUNISHI[i] : i \in DOMAIN JUNISHI}

\* the closed set of tag types
TagTypes == {TagOrder[i] : i \in DOMAIN TagOrder}

\* the one display label of each tag type
FixedLabel ==
       ("tensha" :> "tensha-bi")
    @@ ("ichiryumanbai" :> "ichiryumanbai-bi")
    @@ ("tora" :> "tora-no-hi")
    @@ ("mi" :> "mi-no-hi")
    @@ ("super-mi" :> "tsuchinoto-mi-no-hi")

\* the local month and day of the month of the Date of the call before
PrevCivil == LocalCivil(tz, prevDate)

\* the solar term that begins a season, by its month, and the season it begins
OnsetTerm == (2 :> "Risshun") @@ (5 :> "Rikka") @@ (8 :> "Risshu") @@ (11 :> "Rittou")
SeasonFrom == (2 :> "spring") @@ (5 :> "summer") @@ (8 :> "autumn") @@ (11 :> "winter")

\* the four cardinal points of the phase angle, in tenths of a degree, with
\* the name of each; the new moon is at 0 and, coming round, at 360 degrees
CardinalPoints ==
    { <<0, "shingetsu">>, <<3600, "shingetsu">>, <<900, "jougen-no-tsuki">>,
      <<1800, "mangetsu">>, <<2700, "kagen-no-tsuki">> }

\* the distance of two angles of one turn
AngleGap(a, b) == IF a >= b THEN a - b ELSE b - a

\* the month after and the month before the month ym of a year
MonthAfter(ym) ==
    IF ym.month = 12 THEN [year |-> ym.year + 1, month |-> 1]
    ELSE [year |-> ym.year, month |-> ym.month + 1]
MonthBeforeOf(ym) ==
    IF ym.month = 1 THEN [year |-> ym.year - 1, month |-> 12]
    ELSE [year |-> ym.year, month |-> ym.month - 1]

\* the number of days of month m of year y
IsLeapYear(y) == (y % 4 = 0 /\ y % 100 # 0) \/ y % 400 = 0
DaysOfMonth(y, m) ==
    IF m = 2 THEN (IF IsLeapYear(y) THEN 29 ELSE 28)
    ELSE IF m \in {4, 6, 9, 11} THEN 30 ELSE 31

TypeOK ==
    /\ tz \in TimeZones
    /\ tables = GlyphTables
    /\ step \in {"new", "called", "midnight", "nextDay", "plus60", "plus12", "laterYear"}

-----------------------------------------------------------------------------
C2_SuccessorStep ==
    (step = "nextDay" /\ IsLocalMidnight(tz, prevDate)) =>
        /\ eto.stemIndex = (prevEto.stemIndex + 1) % 10
        /\ eto.branchIndex = (prevEto.branchIndex + 1) % 12

(* C3: for every civil date d (a local midnight), getEto of the day 60 days  *)
(* on returns the same stemIndex, branchIndex, stem, branch and label.       *)
C3_Periodicity ==
    (step = "plus60" /\ IsLocalMidnight(tz, prevDate)) => eto = prevEto

(* C4: the stemIndex and the branchIndex that getEto returns have the same   *)
(* parity, for every date.                                                   *)
C4_Parity ==
    step # "new" => eto.stemIndex % 2 = eto.branchIndex % 2

\* an odd pair was returned for an instant that is not a midnight, on a host
\* whose clock is on daylight-saving time
C4_Witness ==
    /\ step = "called"
    /\ InDst(tz, date)
    /\ ~IsLocalMidnight(tz, date)
    /\ eto.stemIndex % 2 = 1
    /\ eto.branchIndex % 2 = 1

(* C5: for every date, before, at or after the anchor, getEto returns a      *)
(* stemIndex in 0..9 and a branchIndex in 0..11, the stem and the branch are *)
(* the glyphs of the two tables at these indices, and the label is the stem  *)
(* followed by the branch; no glyph is undefined.                            *)
C5_TotalRange ==
    step # "new" =>
        /\ eto.stemIndex \in 0..9
        /\ eto.branchIndex \in 0..11
        /\ eto.stem = JIKKAN[eto.stemIndex + 1]
        /\ eto.branch = JUNISHI[eto.branchIndex + 1]
        /\ eto.etoString = eto.stem \o eto.branch
        /\ eto.stem # "undefined"
        /\ eto.branch # "undefined"

\* the last stem and the last branch were returned for a date before the anchor
C5_Witness ==
    /\ step = "called"
    /\ Before(date, anchor(tz))
    /\ eto.stemIndex = 9
    /\ eto.branchIndex = 11
    /\ eto.etoString = "mizunotoi"

(* C6: for a date k >= 1 calendar days before 2024-01-01 (a local midnight), *)
(* getEto returns the designation of cycle index (60 - (k mod 60)) mod 60.   *)
C6_BeforeAnchor ==
    (step # "new" /\ IsLocalMidnight(tz, date) /\ CalendarDays(tz, date) < 0) =>
        LET k == 0 - CalendarDays(tz, date)
        IN  Designation((60 - (k % 60)) % 60, eto)

(* C7: getEto of an instant of a civil day equals getEto of the local        *)
(* midnight of the same day: the panel of today and the calendar cell of     *)
(* today show the same designation.                                          *)
C7_CivilDateOnly ==
    step = "midnight" => eto = prevEto

(* C8: the day offset that getEto derives for a local-midnight date is the   *)
(* number of calendar days between 2024-01-01 and that date, also when the   *)
(* host's clock is on daylight-saving time at the date and not at the anchor.*)
C8_ExactDayOffset ==
    (step # "new" /\ IsLocalMidnight(tz, date)) =>
        diffDays(tz, date) = CalendarDays(tz, date)

(* C9: the tags that getLuckyDays returns appear in the order tensha,        *)
(* ichiryumanbai, tora, mi, super-mi: the list is a subsequence of these     *)
(* five.                                                                     *)
C9_TagOrder ==
    step # "new" =>
        /\ \A i \in DOMAIN lucks : Rank(lucks[i].type) # 0
        /\ \A i, j \in DOMAIN lucks :
              i < j => Rank(lucks[i].type) < Rank(lucks[j].type)

\* a date got the three tags ichiryumanbai, mi and super-mi
C9_Witness ==
    /\ step = "called"
    /\ TypesOf(lucks) = <<"ichiryumanbai", "mi", "super-mi">>

(* C10: if getLuckyDays returns the super-mi tag for a date, it returns the  *)
(* mi tag for it too, and mi comes before super-mi in the list.              *)
C10_SuperMiRefinesMi ==
    step # "new" =>
        \A j \in DOMAIN lucks :
            lucks[j].type = "super-mi" =>
                \E i \in DOMAIN lucks : i < j /\ lucks[i].type = "mi"

\* a date of the sixth stem and the snake branch got mi, then super-mi
C10_Witness ==
    /\ step = "called"
    /\ eto.stem = "tsuchinoto"
    /\ eto.branch = "mi"
    /\ lucks = <<TagMi, TagSuperMi>>

(* C11: no tag type occurs more than once in the list that getLuckyDays      *)
(* returns; the four tensha rules never push the tensha tag twice.           *)
C11_NoDuplicateTags ==
    step # "new" =>
        \A i, j \in DOMAIN lucks : lucks[i].type = lucks[j].type => i = j

\* a date got the tensha tag, once, and another tag with it
C11_Witness ==
    /\ step = "called"
    /\ Len(lucks) >= 2
    /\ lucks[1].type = "tensha"
    /\ Cardinality({i \in DOMAIN lucks : lucks[i].type = "tensha"}) = 1

(* C12: getLuckyDays returns the tensha tag for a date if and only if the    *)
(* (season, stem, branch) of the date is one of (spring, tsuchinoe, tora),   *)
(* (summer, kinoe, uma), (autumn, tsuchinoe, saru), (winter, kinoe, ne); the *)
(* same stem and branch in another season get no tensha tag.  2025-12-21 is  *)
(* of cycle index 0 in winter and gets it.                                   *)
C12_TenshaRule ==
    step # "new" =>
        /\ HasTag(lucks, "tensha") <=>
              <<SeasonBySpan(Civil.month, Civil.day), eto.stem, eto.branch>> \in TenshaCombos
        /\ date = NewDate(tz, 2025, 11, 21) =>
              /\ eto.stemIndex = 0
              /\ eto.branchIndex = 0
              /\ HasTag(lucks, "tensha")

\* 2025-12-21 was classified and got the tensha tag
C12_Witness ==
    /\ step = "called"
    /\ date = NewDate(tz, 2025, 11, 21)
    /\ eto.etoString = "kinoene"
    /\ HasTag(lucks, "tensha")

(* C13: every (month, day) belongs to exactly one of the four seasons, each  *)
(* from its onset day to the day before the next onset: spring Feb 4 -       *)
(* May 4, summer May 5 - Aug 6, autumn Aug 7 - Nov 6, winter Nov 7 - Feb 3,  *)
(* so that December, January and Feb 1-3 are winter.                         *)
C13_SeasonBucketing ==
    step # "new" =>
        /\ SeasonCount(Civil.month, Civil.day) = 1
        /\ seasonOf(Civil.month, Civil.day) = SeasonBySpan(Civil.month, Civil.day)
        /\ (Civil.month \in {12, 1} \/ (Civil.month = 2 /\ Civil.day <= 3)) =>
              seasonOf(Civil.month, Civil.day) = "winter"

\* the onset day of spring was classified, the day after a day of winter
C13_Witness ==
    /\ step = "nextDay"
    /\ Civil.month = 2
    /\ Civil.day = 4
    /\ seasonOf(Civil.month, Civil.day) = "spring"
    /\ seasonOf(LocalCivil(tz, prevDate).month, LocalCivil(tz, prevDate).day) = "winter"

(* C14: for every (month m, day d) the solar month is m when d is at or      *)
(* after the threshold day of month m and the month before m otherwise,      *)
(* December before January; it lies in 1..12, and the fallback threshold 1   *)
(* is not used.                                                              *)
C14_SolarMonthBucketing ==
    step # "new" =>
        /\ Civil.month \in DOMAIN thresholds
        /\ thresholds[Civil.month] # 0
        /\ getSolarMonth(Civil.month, Civil.day) \in 1..12
        /\ getSolarMonth(Civil.month, Civil.day) =
              IF Civil.day >= thresholds[Civil.month]
              THEN Civil.month
              ELSE MonthBefore(Civil.month)

\* a day of January before its threshold day was classified: solar month 12
C14_Witness ==
    /\ step = "called"
    /\ Civil.month = 1
    /\ Civil.day = 5
    /\ getSolarMonth(Civil.month, Civil.day) = 12

(* C15: the rule table has an entry for each solar month 1..12, each entry   *)
(* holds exactly two distinct branch glyphs, and getLuckyDays returns the    *)
(* ichiryumanbai tag for a date if and only if the branch of the date is one *)
(* of the two of the solar month of the date.                                *)
C15_IchiryumanbaiRule ==
    step # "new" =>
        /\ DOMAIN manbaiRules = 1..12
        /\ \A k \in DOMAIN manbaiRules :
              /\ Len(manbaiRules[k]) = 2
              /\ manbaiRules[k][1] # manbaiRules[k][2]
              /\ manbaiRules[k][1] \in BranchGlyphs
              /\ manbaiRules[k][2] \in BranchGlyphs
        /\ HasTag(lucks, "ichiryumanbai") <=>
              eto.branch \in { manbaiRules[getSolarMonth(Civil.month, Civil.day)][1],
                               manbaiRules[getSolarMonth(Civil.month, Civil.day)][2] }

\* a date before the threshold day of its month got the tag by the rule of
\* the month before, for a branch that the rule of its own month does not hold
C15_Witness ==
    /\ step = "called"
    /\ Civil.day < thresholds[Civil.month]
    /\ HasTag(lucks, "ichiryumanbai")
    /\ ~Includes(manbaiRules[Civil.month], eto.branch)

(* C16: getLuckyDays returns the tora tag for a date if and only if the      *)
(* branchIndex of the date is 2, hence on exactly every 12th day: a civil    *)
(* day has the tag if and only if the day 12 days before it has it, and the  *)
(* day after a day with the tag has none.                                    *)
C16_ToraRule ==
    /\ step # "new" => (HasTag(lucks, "tora") <=> eto.branchIndex = 2)
    /\ (step = "plus12" /\ IsLocalMidnight(tz, prevDate)) =>
          (HasTag(lucks, "tora") <=> prevEto.branchIndex = 2)
    /\ (step = "nextDay" /\ IsLocalMidnight(tz, prevDate)) =>
          ~(HasTag(lucks, "tora") /\ prevEto.branchIndex = 2)

(* C17: getLuckyDays returns the mi tag for a date if and only if the        *)
(* branchIndex of the date is 5, hence on exactly every 12th day: a civil    *)
(* day has the tag if and only if the day 12 days before it has it, and the  *)
(* day after a day with the tag has none.                                    *)
C17_MiRule ==
    /\ step # "new" => (HasTag(lucks, "mi") <=> eto.branchIndex = 5)
    /\ (step = "plus12" /\ IsLocalMidnight(tz, prevDate)) =>
          (HasTag(lucks, "mi") <=> prevEto.branchIndex = 5)
    /\ (step = "nextDay" /\ IsLocalMidnight(tz, prevDate)) =>
          ~(HasTag(lucks, "mi") /\ prevEto.branchIndex = 5)

(* C18: getLuckyDays returns the super-mi tag for a date if and only if      *)
(* stemIndex = 5 and branchIndex = 5, which is the cycle index 5 alone;      *)
(* hence every window of 60 consecutive days has exactly one day with the    *)
(* tag: a civil day has it if and only if the day 60 days before it has it,  *)
(* and neither the day after nor the day 12 days after a day with the tag    *)
(* has it.                                                                   *)
C18_SuperMiRule ==
    /\ step # "new" =>
          (HasTag(lucks, "super-mi") <=> (eto.stemIndex = 5 /\ eto.branchIndex = 5))
    /\ \A c \in 0..59 : (c % 10 = 5 /\ c % 12 = 5) <=> c = 5
    /\ (step = "plus60" /\ IsLocalMidnight(tz, prevDate)) =>
          (HasTag(lucks, "super-mi") <=> (prevEto.stemIndex = 5 /\ prevEto.branchIndex = 5))
    /\ (step \in {"nextDay", "plus12"} /\ IsLocalMidnight(tz, prevDate)) =>
          ~(HasTag(lucks, "super-mi") /\ prevEto.stemIndex = 5 /\ prevEto.branchIndex = 5)

C20_TagShapeWithDescription ==
    step # "new" =>
        \A i \in DOMAIN lucks :
            /\ lucks[i].type \in TagTypes
            /\ lucks[i].label = FixedLabel[lucks[i].type]
            /\ "description" \in DOMAIN lucks[i]

(* C20, amended: every element of the list that getLuckyDays returns has     *)
(* the two fields type and label and no other, the type is of the closed set *)
(* and the label is the one fixed label of the type; the description is not  *)
(* in the element: getLuckyDescription(type) gives, for each type of the     *)
(* set, a text of its own that is not the default text.                      *)
C20_TagShape ==
    step # "new" =>
        /\ \A i \in DOMAIN lucks :
              /\ DOMAIN lucks[i] = {"type", "label"}
              /\ lucks[i].type \in TagTypes
              /\ lucks[i].label = FixedLabel[lucks[i].type]
              /\ getLuckyDescription(lucks[i].type) \notin {"", defaultDescription}
        /\ \A i, j \in DOMAIN lucks :
              getLuckyDescription(lucks[i].type) = getLuckyDescription(lucks[j].type)
                  => lucks[i].type = lucks[j].type

\* a list with the mi and the super-mi tag was returned
C20_Witness ==
    /\ step = "called"
    /\ HasTag(lucks, "mi")
    /\ HasTag(lucks, "super-mi")
    /\ \A i \in DOMAIN lucks : DOMAIN lucks[i] = {"type", "label"}

(* C21: the tag list of getLuckyDays depends on the month, the day of the    *)
(* month and the cycle index of the date only: two dates of different years  *)
(* with the same month, the same day of the month and the same cycle index   *)
(* get the same tag list.                                                    *)
C21_YearIndependence ==
    (/\ step \notin {"new", "called"}
     /\ Civil.month = PrevCivil.month
     /\ Civil.day = PrevCivil.day
     /\ eto.stemIndex = prevEto.stemIndex
     /\ eto.branchIndex = prevEto.branchIndex) => lucks = prevLucks

\* a date and the same month and day 23 years later, of the same cycle index,
\* got the same tags, and there is one
C21_Witness ==
    /\ step = "laterYear"
    /\ Civil.year = PrevCivil.year + 23
    /\ Civil.month = PrevCivil.month
    /\ Civil.day = PrevCivil.day
    /\ eto = prevEto
    /\ lucks = prevLucks
    /\ Len(lucks) > 0

(* C22: the onset day of a solar term is the same in every rule that uses    *)
(* it: for February (Risshun), May (Rikka), August (Risshu) and November     *)
(* (Rittou) the threshold day of the solar month equals the onset day of the *)
(* season and the day of the term in SOLAR_TERMS_BASE, so that a date        *)
(* changes season and solar month on the same day.                           *)
C22_ConsistentOnsets ==
    (step # "new" /\ Civil.month \in DOMAIN OnsetTerm) =>
        /\ SOLAR_TERMS_BASE[OnsetTerm[Civil.month]].month = Civil.month
        /\ thresholds[Civil.month] = SOLAR_TERMS_BASE[OnsetTerm[Civil.month]].day
        /\ seasonOf(Civil.month, Civil.day) = SeasonFrom[Civil.month]
              <=> Civil.day >= SOLAR_TERMS_BASE[OnsetTerm[Civil.month]].day
        /\ seasonOf(Civil.month, Civil.day) = SeasonFrom[Civil.month]
              <=> getSolarMonth(Civil.month, Civil.day) = Civil.month

C28_CoOccurrenceBound ==
    step # "new" =>
        /\ ~(HasTag(lucks, "tora") /\ (HasTag(lucks, "mi") \/ HasTag(lucks, "super-mi")))
        /\ ~(HasTag(lucks, "tensha") /\ (HasTag(lucks, "mi") \/ HasTag(lucks, "super-mi")))
        /\ Len(lucks) <= 3

\* a date got three tags, tensha and tora among them
C28_Witness ==
    /\ step # "new"
    /\ Len(lucks) = 3
    /\ HasTag(lucks, "tensha")
    /\ HasTag(lucks, "tora")

(* C29: over any 60 consecutive days getEto returns 60 pairwise distinct     *)
(* (stemIndex, branchIndex) pairs and 60 distinct labels: the pair           *)
(* determines the cycle index, and two dates (local midnights) have the same *)
(* label if and only if their day offsets are congruent mod 60.              *)
C29_CycleRecoverable ==
    /\ step # "new" =>
          \A c \in 0..59 :
              (stemIndexOf(c) = eto.stemIndex /\ branchIndexOf(c) = eto.branchIndex)
                  => c = currentCycle(diffDays(tz, date))
    /\ (/\ step \notin {"new", "called"}
        /\ IsLocalMidnight(tz, prevDate)
        /\ IsLocalMidnight(tz, date)) =>
          /\ eto.etoString = prevEto.etoString
                <=> (CalendarDays(tz, date) - CalendarDays(tz, prevDate)) % 60 = 0
          /\ <<eto.stemIndex, eto.branchIndex>> = <<prevEto.stemIndex, prevEto.branchIndex>>
                <=> (CalendarDays(tz, date) - CalendarDays(tz, prevDate)) % 60 = 0

(* C23: whether the astronomy library is loaded or not, getMoonPhase(date)   *)
(* returns a record with a phase angle in degrees in [0, 360), a percentage  *)
(* of illumination, an age in days and a phase name; the name is non-empty   *)
(* only within 5 degrees of one of the four cardinal points (new moon 0,     *)
(* first quarter 90, full moon 180, last quarter 270), and it is the name of *)
(* that point alone: the four ranges are disjoint.                           *)
C23_MoonPhaseRecord ==
    moon # NoMoon =>
        /\ {"degrees", "illumination", "age", "phaseName"} \subseteq DOMAIN moon
        /\ moon.degrees \in 0..3599
        /\ moon.phaseName # "" =>
              /\ \E p \in CardinalPoints :
                    p[2] = moon.phaseName /\ AngleGap(moon.degrees, p[1]) <= 50
              /\ \A p \in CardinalPoints :
                    AngleGap(moon.degrees, p[1]) <= 50 => p[2] = moon.phaseName

(* C25: whatever the day of the month (1..31) on which the page was opened,  *)
(* a click on next-month makes the displayed (year, month) the month after   *)
(* the one displayed before it, December going to January of the next year,  *)
(* and a click on prev-month makes it the month before: no month is skipped  *)
(* or repeated in any sequence of clicks.                                    *)
C25_MonthStep ==
    \A i \in DOMAIN clicks :
        shown[i + 1] = IF clicks[i] = "next" THEN MonthAfter(shown[i])
                       ELSE MonthBeforeOf(shown[i])

(* C26: a click on next-month followed by a click on prev-month, and a click *)
(* on prev-month followed by a click on next-month, displays the same (year, *)
(* month) as before the two clicks.                                          *)
C26_RoundTrip ==
    \A i \in DOMAIN clicks :
        (i + 1 \in DOMAIN clicks /\ clicks[i] # clicks[i + 1]) => shown[i + 2] = shown[i]

(* C27: after every renderCalendar(date), whatever the grid held before, the *)
(* grid holds the 7 header cells, then w placeholder cells, w in 0..6 the    *)
(* weekday of the first of the month, then one cell for each day 1 to the    *)
(* number of days of the month, in increasing order: the cells do not add up *)
(* over the clicks.                                                          *)
C27_GridRebuild ==
    shown # <<>> =>
        LET w == WeekDay(DaysFromCivil(label.year, label.month, 1))
            n == DaysOfMonth(label.year, label.month)
        IN  /\ Len(grid) = 7 + w + n
            /\ SubSeq(grid, 1, 7) = WEEKDAYS
            /\ \A i \in 1..w : grid[7 + i] = EmptyCell
            /\ \A d \in 1..n : grid[7 + w + d].kind = "day" /\ grid[7 + w + d].day = d

\* the grid of February of a leap year was built over the grid of a month of
\* 31 days, after two clicks
C27_Witness ==
    /\ Len(clicks) = 2
    /\ label.month = 2
    /\ shown[2].month \in {1, 3}
    /\ Len(grid) = 7 + WeekDay(DaysFromCivil(label.year, 2, 1)) + 29
    /\ grid[Len(grid)].day = 29

====
